---- MODULE Spec2Model ----
(***************************************************************************)
(* ITK-SNAP GUI glue: GlobalUIModel (image loading, cursor position        *)
(* property), PolygonDrawingInteractionMode (Qt event handlers and slots)  *)
(* and the unique ids of ImageWrapperBase.                                  *)
(*                                                                         *)
(* Every Qt handler and every public method runs to completion on the GUI  *)
(* thread, so each is one action.  The calls a handler makes, in order,    *)
(* are kept in the record the action leaves behind (ui, poly).             *)
(***************************************************************************)
EXTENDS Integers, Sequences, FiniteSets, TLC

\* Largest image dimension (voxels per axis) the model loads.
MaxDim == 2
\* Width in bits of the model's unsigned int (stands for the 32 of Vector3ui).
UIntBits == 3
\* Most wrappers ever created.
MaxWrappers == 3
\* Most warnings one call adds to a warning list.
MaxWarnings == 2

VARIABLES
  mainLoaded,       \* IRISApplication: GetCurrentImageData()->IsMainLoaded()
  mainSize,         \* IRISApplication: GetMain()->GetSize()
  overlayLoaded,    \* IRISApplication: IsOverlayLoaded()
  cursor,           \* IRISApplication: GetCursorPosition(), 0-based
  snakeMode,        \* IRISApplication: IsSnakeModeActive()
  toolbarMode,      \* GlobalUIModel::m_ToolbarModeModel
  polygonDrawingContextMenu,  \* GlobalState::GetPolygonDrawingContextMenu()
  linkedZoom,       \* SliceWindowCoordinator::GetLinkedZoom()
  ui,               \* the last GlobalUIModel call: its arguments, calls and results
  m_LeftDown,       \* QtInteractionDelegateWidget::m_LeftDown
  mouseTracking,    \* QWidget::hasMouseTracking() of the interaction mode
  poly,             \* the last PolygonDrawingInteractionMode handler run
  wrappers,         \* every ImageWrapper ever created: [id, alive]
  wq                \* the last GetUniqueId query: [w, id]

driverVars == <<mainLoaded, mainSize, overlayLoaded, cursor, snakeMode, toolbarMode>>
uiVars == <<mainLoaded, mainSize, overlayLoaded, cursor, snakeMode, toolbarMode, ui>>
polyVars == <<m_LeftDown, mouseTracking, poly>>
wrapVars == <<wrappers, wq>>
vars == <<mainLoaded, mainSize, overlayLoaded, cursor, snakeMode, toolbarMode,
          polygonDrawingContextMenu, linkedZoom, ui, m_LeftDown, mouseTracking,
          poly,
          wrappers, wq>>

(***************************************************************************)
(* Vector3ui: three unsigned ints; arithmetic with a scalar wraps.         *)
(***************************************************************************)
Modulus == 2 ^ UIntBits
UIntMax == Modulus - 1

Vector3ui(k) == <<k, k, k>>

VecAdd(v, k) == [i \in 1..3 |-> (v[i] + k) % Modulus]

VecSub(v, k) == [i \in 1..3 |-> (v[i] + Modulus - k) % Modulus]

VecHalf(v) == [i \in 1..3 |-> v[i] \div 2]

\* u >= v in every later component: the vectors the model draws, one per
\* multiset of components.
Ordered(v) == v[1] >= v[2] /\ v[2] >= v[3]

\* Image sizes a file header can carry.
Sizes == {s \in [1..3 -> 1..MaxDim] : Ordered(s)}

\* Values a caller hands to the cursor position property: inside the image,
\* just outside it, and zero.
Values == {v \in [1..3 -> {0, 1, MaxDim, MaxDim + 1}] : Ordered(v)}

(***************************************************************************)
(* GuidedNativeImageIO and the load delegates.                             *)
(* A file is what reading it yields: whether the header and the body can   *)
(* be read, the image size in the header, and what the delegate's two      *)
(* validations find in it.                                                 *)
(***************************************************************************)
Verdicts == {"ok", "warn", "throw"}

\* What is never read (everything after the first failure) is left at its default.
Files ==
  {f \in [headerOk : BOOLEAN, size : Sizes, headerVerdict : Verdicts,
          dataOk : BOOLEAN, imageVerdict : Verdicts] :
     /\ ~f.headerOk => f.headerVerdict = "ok"
     /\ (~f.headerOk \/ f.headerVerdict = "throw") => f.dataOk
     /\ (~f.headerOk \/ f.headerVerdict = "throw" \/ ~f.dataOk) => f.imageVerdict = "ok"}

Delegates == {"main", "overlay"}

\* The warning lists a caller may pass: a list identity and what it holds.
WarningLists == {[id |-> "wlA", items |-> <<>>], [id |-> "wlB", items |-> <<"earlier">>]}

Call(fn, wl) == [fn |-> fn, wl |-> wl]

CallNames(calls) == [i \in 1..Len(calls) |-> calls[i].fn]

Called(calls, fn) == \E i \in 1..Len(calls) : calls[i].fn = fn

\* AbstractLoadImageDelegate::ValidateHeader: adds warnings to wl or throws.
\* An overlay must match the main image.
ValidateHeader(del, io, items) ==
  IF \/ io.headerVerdict = "throw"
     \/ (del = "overlay" /\ (~mainLoaded \/ io.size # mainSize))
  THEN [threw |-> TRUE, items |-> items]
  ELSE [threw |-> FALSE,
        items |-> IF io.headerVerdict = "warn"
                  THEN Append(items, "header") ELSE items]

\* AbstractLoadImageDelegate::ValidateImage: adds warnings to wl or throws.
ValidateImage(del, io, items) ==
  IF io.imageVerdict = "throw"
  THEN [threw |-> TRUE, items |-> items]
  ELSE [threw |-> FALSE,
        items |-> IF io.imageVerdict = "warn"
                  THEN Append(items, "image") ELSE items]

\* IRISApplication::UnloadOverlays
UnloadOverlays == overlayLoaded' = FALSE

\* IRISApplication::UpdateIRISMainImage: the image of io becomes the main
\* image and the cursor moves to its centre.
UpdateIRISMainImage(io) ==
  /\ mainLoaded' = TRUE
  /\ mainSize' = io.size
  /\ cursor' = VecHalf(io.size)
  /\ UNCHANGED <<snakeMode, toolbarMode>>

\* AbstractLoadImageDelegate::UpdateApplicationWithImage
UpdateApplicationWithImage(del, io) ==
  IF del = "main"
  THEN UnloadOverlays /\ UpdateIRISMainImage(io)
  ELSE /\ overlayLoaded' = TRUE
       /\ UNCHANGED <<mainLoaded, mainSize, cursor, snakeMode, toolbarMode>>

Thrown(calls, items) == [calls |-> calls, result |-> "exception", items |-> items]

Returned(calls, items) == [calls |-> calls, result |-> "ok", items |-> items]

\* Mutant: the image body is read before the header is validated.
LoadImageNonInteractiveRun_DataFirst(fname, del, wl) ==
  LET c1 == <<Call("ReadNativeImageHeader", "-")>>
      c2 == Append(c1, Call("ReadNativeImageData", "-"))
      c3 == Append(c2, Call("ValidateHeader", wl.id))
      c4 == Append(c3, Call("ValidateImage", wl.id))
      c5 == Append(c4, Call("UpdateApplicationWithImage", "-"))
      vh == ValidateHeader(del, fname, wl.items)
      vi == ValidateImage(del, fname, vh.items)
  IN  IF ~fname.headerOk THEN Thrown(c1, wl.items)
      ELSE IF ~fname.dataOk THEN Thrown(c2, wl.items)
      ELSE IF vh.threw THEN Thrown(c3, vh.items)
      ELSE IF vi.threw THEN Thrown(c4, vi.items)
      ELSE Returned(c5, vi.items)

\* Mutant: a failed ValidateImage is caught and the image is installed anyway.
LoadImageNonInteractiveRun_Swallow(fname, del, wl) ==
  LET c1 == <<Call("ReadNativeImageHeader", "-")>>
      c2 == Append(c1, Call("ValidateHeader", wl.id))
      c3 == Append(c2, Call("ReadNativeImageData", "-"))
      c4 == Append(c3, Call("ValidateImage", wl.id))
      c5 == Append(c4, Call("UpdateApplicationWithImage", "-"))
      vh == ValidateHeader(del, fname, wl.items)
      vi == ValidateImage(del, fname, vh.items)
  IN  IF ~fname.headerOk THEN Thrown(c1, wl.items)
      ELSE IF vh.threw THEN Thrown(c2, vh.items)
      ELSE IF ~fname.dataOk THEN Thrown(c3, vh.items)
      ELSE Returned(c5, vi.items)

\* GlobalUIModel::LoadImageNonInteractive, the calls it makes in order.  No
\* call is in a try block: the first exception ends the run.
LoadImageNonInteractiveRun(fname, del, wl) ==
  LET c1 == <<Call("ReadNativeImageHeader", "-")>>
      c2 == Append(c1, Call("ValidateHeader", wl.id))
      c3 == Append(c2, Call("ReadNativeImageData", "-"))
      c4 == Append(c3, Call("ValidateImage", wl.id))
      c5 == Append(c4, Call("UpdateApplicationWithImage", "-"))
      vh == ValidateHeader(del, fname, wl.items)
      vi == ValidateImage(del, fname, vh.items)
  IN  IF ~fname.headerOk THEN Thrown(c1, wl.items)
      ELSE IF vh.threw THEN Thrown(c2, vh.items)
      ELSE IF ~fname.dataOk THEN Thrown(c3, vh.items)
      ELSE IF vi.threw THEN Thrown(c4, vi.items)
      ELSE Returned(c5, vi.items)

\* Whether one of the four calls before UpdateApplicationWithImage throws for
\* this file and delegate.
StepFails(f, d) ==
  \/ ~f.headerOk
  \/ ValidateHeader(d, f, <<>>).threw
  \/ ~f.dataOk
  \/ ValidateImage(d, f, <<>>).threw

\* GlobalUIModel::LoadImageNonInteractive
LoadImageNonInteractive(fname, del, wl) ==
  LET run == LoadImageNonInteractiveRun(fname, del, wl)
  IN  /\ ui' = [op |-> "LoadImageNonInteractive",
                arg |-> [wl |-> wl.id, fails |-> StepFails(fname, del)],
                calls |-> run.calls, result |-> run.result, out |-> run.items]
      /\ IF Called(run.calls, "UpdateApplicationWithImage")
         THEN UpdateApplicationWithImage(del, fname)
         ELSE UNCHANGED driverVars
      /\ UNCHANGED <<polygonDrawingContextMenu, linkedZoom, polyVars, wrapVars>>

\* GlobalUIModel::LoadGrayImage; io has read its image.
LoadGrayImage(io) ==
  /\ UnloadOverlays
  /\ UpdateIRISMainImage(io)
  /\ ui' = [op |-> "LoadGrayImage", arg |-> io.size,
            calls |-> <<Call("UnloadOverlays", "-"), Call("UpdateIRISMainImage", "-")>>,
            result |-> "ok", out |-> "-"]
  /\ UNCHANGED <<polygonDrawingContextMenu, linkedZoom, polyVars, wrapVars>>

(***************************************************************************)
(* The cursor position property of GlobalUIModel.                          *)
(***************************************************************************)
Range(min, max, step) == [min |-> min, max |-> max, step |-> step]

\* What the caller's value and range hold before the getter runs.
StaleValues == {Vector3ui(0), Vector3ui(UIntMax)}

StaleRange == Range(Vector3ui(0), Vector3ui(0), Vector3ui(0))

\* Mutant: the getter reports the driver's 0-based position.
GetCursorPositionValueAndRange_ZeroBased(value, range, wantRange) ==
  IF mainLoaded
  THEN [ret |-> TRUE,
        value |-> cursor,
        range |-> IF wantRange
                  THEN Range(Vector3ui(1), mainSize, Vector3ui(1))
                  ELSE range]
  ELSE [ret |-> FALSE, value |-> value, range |-> range]

\* GlobalUIModel::GetCursorPositionValueAndRange; value and range are the
\* caller's objects, wantRange is range # NULL.
GetCursorPositionValueAndRange(value, range, wantRange) ==
  IF mainLoaded
  THEN [ret |-> TRUE,
        value |-> VecAdd(cursor, 1),
        range |-> IF wantRange
                  THEN Range(Vector3ui(1), mainSize, Vector3ui(1))
                  ELSE range]
  ELSE [ret |-> FALSE, value |-> value, range |-> range]

\* A call of the getter through m_CursorPositionModel.
GetCursorPosition(value, wantRange) ==
  /\ ui' = [op |-> "GetCursorPositionValueAndRange",
            arg |-> [value |-> value, range |-> StaleRange, wantRange |-> wantRange],
            calls |-> <<>>, result |-> "ok",
            out |-> GetCursorPositionValueAndRange(value, StaleRange, wantRange)]
  /\ UNCHANGED <<driverVars, polygonDrawingContextMenu, linkedZoom, polyVars, wrapVars>>

\* IRISApplication::SetCursorPosition: the driver keeps what it is given.
DriverSetCursorPosition(pos) == cursor' = pos

\* Mutant: the setter hands the 1-based value to the driver.
SetCursorPosition_NoOffset(value) ==
  /\ DriverSetCursorPosition(value)
  /\ ui' = [op |-> "SetCursorPosition", arg |-> value,
            calls |-> <<Call("SetCursorPosition", "-")>>, result |-> "ok", out |-> "-"]
  /\ UNCHANGED <<mainLoaded, mainSize, overlayLoaded, snakeMode, toolbarMode,
                 polygonDrawingContextMenu, linkedZoom, polyVars, wrapVars>>

\* GlobalUIModel::SetCursorPosition
SetCursorPosition(value) ==
  /\ DriverSetCursorPosition(VecSub(value, 1))
  /\ ui' = [op |-> "SetCursorPosition", arg |-> value,
            calls |-> <<Call("SetCursorPosition", "-")>>, result |-> "ok", out |-> "-"]
  /\ UNCHANGED <<mainLoaded, mainSize, overlayLoaded, snakeMode, toolbarMode,
                 polygonDrawingContextMenu, linkedZoom, polyVars, wrapVars>>

\* GlobalUIModel::EnterActiveContourMode
EnterActiveContourMode ==
  /\ mainLoaded
  /\ snakeMode' = TRUE
  /\ toolbarMode' = "NAVIGATION_MODE"
  /\ ui' = [op |-> "EnterActiveContourMode", arg |-> "-",
            calls |-> <<Call("InitializeSNAPImageData", "-"),
                        Call("SetCurrentImageDataToSNAP", "-"),
                        Call("SetToolbarMode", "-")>>,
            result |-> "ok", out |-> "-"]
  /\ UNCHANGED <<mainLoaded, mainSize, overlayLoaded, cursor,
                 polygonDrawingContextMenu, linkedZoom, polyVars, wrapVars>>

(***************************************************************************)
(* GlobalUIModel::CheckState and the state it reads.                       *)
(***************************************************************************)
UIState ==
  {"UIF_RGB_LOADED", "UIF_BASEIMG_LOADED", "UIF_IRIS_ACTIVE", "UIF_MESH_DIRTY",
   "UIF_MESH_ACTION_PENDING", "UIF_ROI_VALID", "UIF_LINKED_ZOOM",
   "UIF_UNDO_POSSIBLE", "UIF_REDO_POSSIBLE", "UIF_UNSAVED_CHANGES",
   "UIF_MESH_SAVEABLE", "UIF_GRAY_LOADED", "UIF_OVERLAY_LOADED",
   "UIF_SNAKE_MODE"}

\* The cases of the switch that only break.
Unimplemented ==
  {"UIF_MESH_ACTION_PENDING", "UIF_ROI_VALID", "UIF_UNDO_POSSIBLE",
   "UIF_REDO_POSSIBLE", "UIF_UNSAVED_CHANGES", "UIF_MESH_SAVEABLE"}

\* GenericImageData::IsRGBLoaded: the loads modelled here install scalar
\* images (MAIN_SCALAR, the Files.Grey folder), so no RGB image is held.
IsRGBLoaded == FALSE

\* Mutant: IRIS counts as active only outside snake mode.
CheckState_IrisExclusive(state) ==
  CASE state = "UIF_RGB_LOADED" -> IsRGBLoaded
    [] state = "UIF_BASEIMG_LOADED" -> mainLoaded
    [] state = "UIF_IRIS_ACTIVE" -> ~snakeMode
    [] state = "UIF_MESH_DIRTY" -> FALSE
    [] state = "UIF_LINKED_ZOOM" -> linkedZoom
    [] state = "UIF_GRAY_LOADED" -> mainLoaded
    [] state = "UIF_OVERLAY_LOADED" -> overlayLoaded
    [] state = "UIF_SNAKE_MODE" -> snakeMode
    [] OTHER -> FALSE

\* GlobalUIModel::CheckState: the switch returns in the implemented cases;
\* the others break and reach the final return false.
CheckState(state) ==
  CASE state = "UIF_RGB_LOADED" -> IsRGBLoaded
    [] state = "UIF_BASEIMG_LOADED" -> mainLoaded
    [] state = "UIF_IRIS_ACTIVE" -> TRUE
    [] state = "UIF_MESH_DIRTY" -> FALSE
    [] state = "UIF_LINKED_ZOOM" -> linkedZoom
    [] state = "UIF_GRAY_LOADED" -> mainLoaded
    [] state = "UIF_OVERLAY_LOADED" -> overlayLoaded
    [] state = "UIF_SNAKE_MODE" -> snakeMode
    [] state \in Unimplemented -> FALSE
    [] OTHER -> FALSE

\* A call of CheckState (by the flag engine, SNAPUIFlag).
CheckStateCall(state) ==
  /\ ui' = [op |-> "CheckState", arg |-> state, calls |-> <<>>,
            result |-> "ok", out |-> CheckState(state)]
  /\ UNCHANGED <<driverVars, polygonDrawingContextMenu, linkedZoom, polyVars,
                 wrapVars>>

\* SliceWindowCoordinator::SetLinkedZoom
SetLinkedZoom(flag) ==
  /\ linkedZoom' = flag
  /\ UNCHANGED <<uiVars, polygonDrawingContextMenu, polyVars, wrapVars>>

(***************************************************************************)
(* PolygonDrawingInteractionMode.  A handler run is the calls the handler  *)
(* makes in order (each with its argument and what it returned), whether   *)
(* it called ev->accept(), how often it called update() and whether it     *)
(* emitted contextMenuRequested.  What a PolygonDrawingModel method        *)
(* returns is an input of the handler.                                     *)
(***************************************************************************)
Buttons == {"LeftButton", "RightButton", "MiddleButton"}

MouseEvents == [button : Buttons, shift : BOOLEAN]

ContextMenuEvents == [ctrl : BOOLEAN, meta : BOOLEAN]

\* What AcceptPolygon may add to the list it is given.
AddedWarnings == UNION {[1..n -> {"warning"}] : n \in 0..MaxWarnings}

PCall(fn, arg, ret) == [fn |-> fn, arg |-> arg, ret |-> ret]

Run(calls, accepted, updates, emitted) ==
  [calls |-> calls, accepted |-> accepted, updates |-> updates, emitted |-> emitted]

\* The handler that ran, the event it was given and what it did.
Handled(name, ev, run) ==
  poly' = [handler |-> name, ev |-> ev, calls |-> run.calls,
           accepted |-> run.accepted, updates |-> run.updates,
           emitted |-> run.emitted]

\* QtInteractionDelegateWidget keeps m_LeftDown before the handler runs.
preprocessEvent(type, ev) ==
  IF ev.button = "LeftButton" THEN type = "press" ELSE m_LeftDown

\* Mutant: the button is not looked at.
mousePressEvent_AnyButton(ev, ret) ==
  Run(<<PCall("ProcessPushEvent", ev.shift, ret)>>, ret, 0, FALSE)

\* PolygonDrawingInteractionMode::mousePressEvent
mousePressEvent(ev, ret) ==
  IF ev.button = "LeftButton"
  THEN Run(<<PCall("ProcessPushEvent", ev.shift, ret)>>, ret, 0, FALSE)
  ELSE Run(<<>>, FALSE, 0, FALSE)

\* Mutant: a drag requests a repaint too.
mouseMoveEvent_UpdateOnDrag(leftDown, ret) ==
  IF leftDown
  THEN Run(<<PCall("ProcessDragEvent", "-", ret)>>, ret,
           IF ret THEN 1 ELSE 0, FALSE)
  ELSE Run(<<PCall("ProcessMouseMoveEvent", "-", ret)>>, ret,
           IF ret THEN 1 ELSE 0, FALSE)

\* PolygonDrawingInteractionMode::mouseMoveEvent
mouseMoveEvent(leftDown, ret) ==
  IF leftDown
  THEN Run(<<PCall("ProcessDragEvent", "-", ret)>>, ret, 0, FALSE)
  ELSE Run(<<PCall("ProcessMouseMoveEvent", "-", ret)>>, ret,
           IF ret THEN 1 ELSE 0, FALSE)

\* PolygonDrawingInteractionMode::mouseReleaseEvent
mouseReleaseEvent(ev, ret) ==
  IF ev.button = "LeftButton"
  THEN Run(<<PCall("ProcessReleaseEvent", "-", ret)>>, ret, 0, FALSE)
  ELSE Run(<<>>, FALSE, 0, FALSE)

\* Mutant: the modifiers count only while the option is enabled.
contextMenuEvent_OptionRequired(option, ev) ==
  Run(<<>>, FALSE, 0, option /\ (ev.ctrl \/ ev.meta))

\* PolygonDrawingInteractionMode::contextMenuEvent
contextMenuEvent(option, ev) ==
  Run(<<>>, FALSE, 0, option \/ ev.ctrl \/ ev.meta)

\* Mutant: the dialog is shown whatever the list holds.
onAcceptPolygon_AlwaysShow(added) ==
  LET warnings == <<>>
      after == warnings \o added
  IN  Run(<<PCall("makeCurrent", "-", "-"),
            PCall("AcceptPolygon", warnings, after),
            PCall("QtWarningDialog::show", after, "-")>>,
          FALSE, 0, FALSE)

\* PolygonDrawingInteractionMode::onAcceptPolygon; added is what AcceptPolygon
\* appends to the list it is given.
onAcceptPolygon(added) ==
  LET warnings == <<>>
      after == warnings \o added
      c == <<PCall("makeCurrent", "-", "-"),
             PCall("AcceptPolygon", warnings, after)>>
  IN  Run(IF Len(after) # 0
          THEN Append(c, PCall("QtWarningDialog::show", after, "-"))
          ELSE c,
          FALSE, 0, FALSE)

\* PolygonDrawingInteractionMode::onCloseLoopAndEdit
onCloseLoopAndEdit == Run(<<PCall("ClosePolygon", "-", "-")>>, FALSE, 0, FALSE)

\* Mutant: the polygon is accepted before the loop is closed.
onCloseLoopAndAccept_AcceptFirst(added) ==
  Run(onAcceptPolygon(added).calls \o onCloseLoopAndEdit.calls, FALSE, 0, FALSE)

\* PolygonDrawingInteractionMode::onCloseLoopAndAccept
onCloseLoopAndAccept(added) ==
  Run(onCloseLoopAndEdit.calls \o onAcceptPolygon(added).calls, FALSE, 0, FALSE)

\* The slots that forward to one PolygonDrawingModel method.
Slots ==
  { <<"onPastePolygon", "PastePolygon">>,
    <<"onSplitSelected", "Insert">>,
    <<"onDeleteSelected", "Delete">>,
    <<"onClearPolygon", "Reset">>,
    <<"onUndoLastPoint", "DropLastPoint">>,
    <<"onCancelDrawing", "Reset">> }

PolyUnchanged == UNCHANGED <<uiVars, polygonDrawingContextMenu, linkedZoom, wrapVars>>

MousePress(ev, ret) ==
  /\ m_LeftDown' = preprocessEvent("press", ev)
  /\ Handled("mousePressEvent", ev, mousePressEvent(ev, ret))
  /\ UNCHANGED mouseTracking
  /\ PolyUnchanged

MouseMove(ret) ==
  /\ Handled("mouseMoveEvent", "-", mouseMoveEvent(m_LeftDown, ret))
  /\ UNCHANGED <<m_LeftDown, mouseTracking>>
  /\ PolyUnchanged

MouseRelease(ev, ret) ==
  /\ m_LeftDown' = preprocessEvent("release", ev)
  /\ Handled("mouseReleaseEvent", ev, mouseReleaseEvent(ev, ret))
  /\ UNCHANGED mouseTracking
  /\ PolyUnchanged

ContextMenu(ev) ==
  /\ Handled("contextMenuEvent", ev, contextMenuEvent(polygonDrawingContextMenu, ev))
  /\ UNCHANGED <<m_LeftDown, mouseTracking>>
  /\ PolyUnchanged

AcceptPolygonSlot(added) ==
  /\ Handled("onAcceptPolygon", "-", onAcceptPolygon(added))
  /\ UNCHANGED <<m_LeftDown, mouseTracking>>
  /\ PolyUnchanged

CloseLoopAndEditSlot ==
  /\ Handled("onCloseLoopAndEdit", "-", onCloseLoopAndEdit)
  /\ UNCHANGED <<m_LeftDown, mouseTracking>>
  /\ PolyUnchanged

CloseLoopAndAcceptSlot(added) ==
  /\ Handled("onCloseLoopAndAccept", "-", onCloseLoopAndAccept(added))
  /\ UNCHANGED <<m_LeftDown, mouseTracking>>
  /\ PolyUnchanged

\* onPastePolygon, onSplitSelected, onDeleteSelected, onClearPolygon,
\* onUndoLastPoint, onCancelDrawing
ForwardingSlot(slot) ==
  /\ Handled(slot[1], "-", Run(<<PCall(slot[2], "-", "-")>>, FALSE, 0, FALSE))
  /\ UNCHANGED <<m_LeftDown, mouseTracking>>
  /\ PolyUnchanged

\* PolygonDrawingInteractionMode::onModelUpdate
onModelUpdate ==
  /\ Handled("onModelUpdate", "-", Run(<<>>, FALSE, 1, FALSE))
  /\ UNCHANGED <<m_LeftDown, mouseTracking>>
  /\ PolyUnchanged

\* PolygonDrawingInteractionMode::enterEvent
enterEvent ==
  /\ mouseTracking' = TRUE
  /\ Handled("enterEvent", "-", Run(<<PCall("setMouseTracking", TRUE, "-")>>, FALSE, 0, FALSE))
  /\ UNCHANGED m_LeftDown
  /\ PolyUnchanged

\* PolygonDrawingInteractionMode::leaveEvent
leaveEvent ==
  /\ mouseTracking' = FALSE
  /\ Handled("leaveEvent", "-", Run(<<PCall("setMouseTracking", FALSE, "-")>>, FALSE, 0, FALSE))
  /\ UNCHANGED m_LeftDown
  /\ PolyUnchanged

(***************************************************************************)
(* ImageWrapperBase::GetUniqueId.  wrappers holds every wrapper ever       *)
(* created, in creation order; a destroyed one stays, marked not alive.    *)
(***************************************************************************)
IdPool == 1..(MaxWrappers + 1)

IssuedIds == {wrappers[i].id : i \in 1..Len(wrappers)}

\* Mutant: the id of a destroyed wrapper is given out again.
FreshIds_Reuse ==
  IdPool \ {wrappers[i].id : i \in {j \in 1..Len(wrappers) : wrappers[j].alive}}

\* The ids a new wrapper may get: none that any wrapper has had.
FreshIds == IdPool \ IssuedIds

\* ImageWrapperBase::GetUniqueId
GetUniqueId(w) == wrappers[w].id

CreateWrapper(id) ==
  /\ Len(wrappers) < MaxWrappers
  /\ id \in FreshIds
  /\ wrappers' = Append(wrappers, [id |-> id, alive |-> TRUE])
  /\ UNCHANGED <<wq, uiVars, polygonDrawingContextMenu, linkedZoom, polyVars>>

\* ImageWrapperBase::~ImageWrapperBase
DestroyWrapper(w) ==
  /\ wrappers[w].alive
  /\ wrappers' = [wrappers EXCEPT ![w].alive = FALSE]
  /\ UNCHANGED <<wq, uiVars, polygonDrawingContextMenu, linkedZoom, polyVars>>

QueryUniqueId(w) ==
  /\ wrappers[w].alive
  /\ wq' = [w |-> w, id |-> GetUniqueId(w)]
  /\ UNCHANGED <<wrappers, uiVars, polygonDrawingContextMenu, linkedZoom, polyVars>>

(***************************************************************************)
(* Specifications.                                                          *)
(***************************************************************************)
Init ==
  /\ mainLoaded = FALSE
  /\ mainSize = Vector3ui(0)
  /\ overlayLoaded = FALSE
  /\ cursor = Vector3ui(0)
  /\ snakeMode = FALSE
  /\ toolbarMode = "CROSSHAIRS_MODE"
  /\ polygonDrawingContextMenu \in BOOLEAN
  /\ linkedZoom = FALSE
  /\ ui = [op |-> "none", arg |-> "-", calls |-> <<>>, result |-> "ok", out |-> "-"]
  /\ m_LeftDown = FALSE
  /\ mouseTracking = FALSE
  /\ poly = [handler |-> "none", ev |-> "-", calls |-> <<>>, accepted |-> FALSE,
             updates |-> 0, emitted |-> FALSE]
  /\ wrappers = <<>>
  /\ wq = [w |-> 0, id |-> 0]

LoadStep == \E f \in Files, d \in Delegates, wl \in WarningLists : LoadImageNonInteractive(f, d, wl)

GrayStep == \E s \in Sizes : LoadGrayImage([size |-> s])

GetStep == \E v \in StaleValues, r \in BOOLEAN : GetCursorPosition(v, r)

SetStep == \E v \in Values : SetCursorPosition(v)

\* Image loading and the mode change, with the cursor moved in between.
MoveStep == \E k \in {1, MaxDim} : SetCursorPosition(Vector3ui(k))

NextLoad == LoadStep \/ GrayStep \/ MoveStep \/ EnterActiveContourMode

\* The cursor position property over the images LoadGrayImage loads.
NextCursor == GrayStep \/ GetStep \/ SetStep


CheckStep == \E state \in UIState : CheckStateCall(state)

ZoomStep == \E flag \in BOOLEAN : SetLinkedZoom(flag)

\* The flags of CheckState over the operations that change what it reads.
NextState ==
  \/ CheckStep
  \/ ZoomStep
  \/ GrayStep
  \/ \E f \in Files :
       LoadImageNonInteractive(f, "overlay", [id |-> "wlA", items |-> <<>>])
  \/ EnterActiveContourMode

NextPoly ==
  \/ \E ev \in MouseEvents, ret \in BOOLEAN : MousePress(ev, ret)
  \/ \E ret \in BOOLEAN : MouseMove(ret)
  \/ \E ev \in MouseEvents, ret \in BOOLEAN : MouseRelease(ev, ret)
  \/ \E ev \in ContextMenuEvents : ContextMenu(ev)
  \/ \E added \in AddedWarnings : AcceptPolygonSlot(added)
  \/ CloseLoopAndEditSlot
  \/ \E added \in AddedWarnings : CloseLoopAndAcceptSlot(added)
  \/ \E slot \in Slots : ForwardingSlot(slot)
  \/ onModelUpdate
  \/ enterEvent
  \/ leaveEvent

NextWrap ==
  \/ \E id \in IdPool : CreateWrapper(id)
  \/ \E w \in 1..Len(wrappers) : DestroyWrapper(w)
  \/ \E w \in 1..Len(wrappers) : QueryUniqueId(w)

Next == NextLoad \/ NextCursor \/ NextState \/ NextPoly \/ NextWrap

SpecLoad == Init /\ [][NextLoad]_vars

SpecCursor == Init /\ [][NextCursor]_vars

SpecState == Init /\ [][NextState]_vars

SpecPoly == Init /\ [][NextPoly]_vars

SpecWrap == Init /\ [][NextWrap]_vars

Spec == Init /\ [][Next]_vars

(***************************************************************************)
(* Properties.                                                              *)
(***************************************************************************)
LoadOrder ==
  <<"ReadNativeImageHeader", "ValidateHeader", "ReadNativeImageData",
    "ValidateImage", "UpdateApplicationWithImage">>

IsPrefix(s, t) == Len(s) <= Len(t) /\ \A i \in 1..Len(s) : s[i] = t[i]

Positions(calls, fn) == {i \in 1..Len(calls) : calls[i].fn = fn}

\* C1: LoadImageNonInteractive makes its five calls in the order header read,
\* ValidateHeader, data read, ValidateImage, UpdateApplicationWithImage, each
\* once when it returns; in every run UpdateApplicationWithImage comes after
\* both validations, and both validations are given the caller's warning list.
C1_LoadOrder ==
  ui.op = "LoadImageNonInteractive" =>
    /\ IsPrefix(CallNames(ui.calls), LoadOrder)
    /\ ui.result = "ok" => CallNames(ui.calls) = LoadOrder
    /\ \A u \in Positions(ui.calls, "UpdateApplicationWithImage") :
         /\ \E h \in Positions(ui.calls, "ValidateHeader") : h < u
         /\ \E v \in Positions(ui.calls, "ValidateImage") : v < u
    /\ \A i \in Positions(ui.calls, "ValidateHeader") \cup
                Positions(ui.calls, "ValidateImage") : ui.calls[i].wl = ui.arg.wl

\* A load that returned, with a warning from each validation in the caller's list.
C1_Witness ==
  /\ ui.op = "LoadImageNonInteractive"
  /\ ui.result = "ok"
  /\ ui.arg.wl = "wlB"
  /\ ui.out = <<"earlier", "header", "image">>

\* C2: when a step of LoadImageNonInteractive before UpdateApplicationWithImage
\* throws, UpdateApplicationWithImage is not called, the caller gets the
\* exception, and the driver's images, cursor and toolbar mode are unchanged.
C2_FailedLoad ==
  [][(ui'.op = "LoadImageNonInteractive" /\ ui'.arg.fails) =>
        /\ ui'.result = "exception"
        /\ ~Called(ui'.calls, "UpdateApplicationWithImage")
        /\ UNCHANGED driverVars]_vars

\* A load that failed in ValidateImage, with an image loaded and the cursor
\* moved away from where loading put it.
C2_Witness ==
  /\ ui.op = "LoadImageNonInteractive"
  /\ ui.result = "exception"
  /\ Len(ui.calls) = 4
  /\ mainLoaded
  /\ cursor # VecHalf(mainSize)
  /\ toolbarMode = "NAVIGATION_MODE"

\* C3: onAcceptPolygon hands AcceptPolygon an empty list, calls it once, and
\* shows the warning dialog exactly when AcceptPolygon added a warning: after
\* AcceptPolygon returned, and never with an empty list.
C3_AcceptWarnings ==
  poly.handler = "onAcceptPolygon" =>
    LET acc == Positions(poly.calls, "AcceptPolygon")
        dlg == Positions(poly.calls, "QtWarningDialog::show")
    IN  /\ Cardinality(acc) = 1
        /\ Cardinality(dlg) <= 1
        /\ \A a \in acc :
             /\ poly.calls[a].arg = <<>>
             /\ (dlg # {}) <=> (Len(poly.calls[a].ret) > 0)
             /\ \A d \in dlg : a < d /\ Len(poly.calls[d].arg) > 0
                                     /\ poly.calls[d].arg = poly.calls[a].ret

\* onAcceptPolygon ran and showed the dialog with two warnings.
C3_Witness ==
  /\ poly.handler = "onAcceptPolygon"
  /\ \E d \in Positions(poly.calls, "QtWarningDialog::show") :
       Len(poly.calls[d].arg) = 2

\* C4: a press calls ProcessPushEvent and a release ProcessReleaseEvent only
\* for the left button, and then the event is accepted exactly when the model
\* method returned true; for another button nothing is called or accepted.
C4_LeftButtonOnly ==
  poly.handler \in {"mousePressEvent", "mouseReleaseEvent"} =>
    LET method == IF poly.handler = "mousePressEvent"
                  THEN "ProcessPushEvent" ELSE "ProcessReleaseEvent"
    IN  IF poly.ev.button = "LeftButton"
        THEN /\ CallNames(poly.calls) = <<method>>
             /\ poly.accepted <=> poly.calls[1].ret
        ELSE /\ poly.calls = <<>>
             /\ ~poly.accepted

\* A right-button press after which nothing was called.
C4_Witness ==
  /\ poly.handler = "mousePressEvent"
  /\ poly.ev.button = "RightButton"
  /\ poly.calls = <<>>
  /\ m_LeftDown

\* C5: a mouse move calls exactly one model method, ProcessDragEvent when
\* m_LeftDown and ProcessMouseMoveEvent otherwise; the event is accepted
\* exactly when it returned true, and update() is requested only without
\* m_LeftDown and when ProcessMouseMoveEvent returned true.
C5_MoveDispatch ==
  poly.handler = "mouseMoveEvent" =>
    /\ CallNames(poly.calls) =
         <<IF m_LeftDown THEN "ProcessDragEvent" ELSE "ProcessMouseMoveEvent">>
    /\ poly.accepted <=> poly.calls[1].ret
    /\ (poly.updates > 0) <=> (~m_LeftDown /\ poly.calls[1].ret)

\* A drag the model accepted.
C5_Witness ==
  /\ poly.handler = "mouseMoveEvent"
  /\ m_LeftDown
  /\ poly.accepted
  /\ poly.updates = 0

\* The methods of PolygonDrawingModel the interaction mode calls.
ModelMethods ==
  {"ProcessPushEvent", "ProcessDragEvent", "ProcessMouseMoveEvent",
   "ProcessReleaseEvent", "PastePolygon", "AcceptPolygon", "Insert", "Delete",
   "Reset", "ClosePolygon", "DropLastPoint"}

IsModelCall(c) == c.fn \in ModelMethods

\* C6: a handler runs to completion, so the model calls of one
\* onCloseLoopAndAccept are ClosePolygon and then AcceptPolygon, with no other
\* model call before, between or after them.
C6_CloseThenAccept ==
  poly.handler = "onCloseLoopAndAccept" =>
    CallNames(SelectSeq(poly.calls, IsModelCall)) = <<"ClosePolygon", "AcceptPolygon">>

\* onCloseLoopAndAccept ran and its AcceptPolygon added a warning.
C6_Witness ==
  /\ poly.handler = "onCloseLoopAndAccept"
  /\ Positions(poly.calls, "QtWarningDialog::show") # {}

\* C7: no two wrappers ever created, destroyed ones included, have the same
\* id, and a wrapper's id never changes.
C7_UniqueIds ==
  [][/\ \A i, j \in 1..Len(wrappers') :
          i # j => wrappers'[i].id # wrappers'[j].id
     /\ \A i \in 1..Len(wrappers) :
          Len(wrappers') >= i /\ wrappers'[i].id = GetUniqueId(i)]_vars

\* A wrapper was destroyed and another one created after it.
C7_Witness ==
  /\ Len(wrappers) = 3
  /\ ~wrappers[1].alive
  /\ wrappers[3].alive
  /\ wq.w = 3

\* C8: contextMenuEvent emits contextMenuRequested exactly when the
\* PolygonDrawingContextMenu option is enabled or the event carries Control or
\* Meta: never with the option off and no modifier, always with a modifier.
C8_ContextMenu ==
  poly.handler = "contextMenuEvent" =>
    /\ poly.emitted <=>
         (polygonDrawingContextMenu \/ poly.ev.ctrl \/ poly.ev.meta)
    /\ (~polygonDrawingContextMenu /\ ~poly.ev.ctrl /\ ~poly.ev.meta) => ~poly.emitted
    /\ (poly.ev.ctrl \/ poly.ev.meta) => poly.emitted

\* The menu was requested with the option off, by the Meta modifier alone.
C8_Witness ==
  /\ poly.handler = "contextMenuEvent"
  /\ ~polygonDrawingContextMenu
  /\ poly.ev.meta /\ ~poly.ev.ctrl
  /\ poly.emitted

\* C9: with a main image the getter returns true, reports the cursor plus one
\* (unsigned) in every component and, when asked, the range (1,1,1), image
\* size, (1,1,1); without one it returns false and leaves the caller's value
\* and range as they were.
C9_GetCursor ==
  ui.op = "GetCursorPositionValueAndRange" =>
    IF mainLoaded
    THEN /\ ui.out.ret
         /\ \A i \in 1..3 : ui.out.value[i] = (cursor[i] + 1) % Modulus
         /\ ui.arg.wantRange =>
              /\ ui.out.range.min = <<1, 1, 1>>
              /\ ui.out.range.max = mainSize
              /\ ui.out.range.step = <<1, 1, 1>>
    ELSE /\ ~ui.out.ret
         /\ ui.out.value = ui.arg.value
         /\ ui.out.range = ui.arg.range

\* The getter ran on a loaded image with the cursor at the far corner.
C9_Witness ==
  /\ ui.op = "GetCursorPositionValueAndRange"
  /\ mainLoaded
  /\ ui.arg.wantRange
  /\ mainSize = <<MaxDim, 1, 1>>
  /\ ui.out.value = mainSize

InImage(v) == \A i \in 1..3 : 1 <= v[i] /\ v[i] <= mainSize[i]

\* C10: with a main image, after SetCursorPosition(v) with 1 <= v <= size in
\* every component the driver holds v - 1 and the getter reports v.
C10_RoundTrip ==
  (ui.op = "SetCursorPosition" /\ mainLoaded /\ InImage(ui.arg)) =>
    /\ \A i \in 1..3 : cursor[i] = ui.arg[i] - 1
    /\ \A stale \in StaleValues :
         LET got == GetCursorPositionValueAndRange(stale, StaleRange, TRUE)
         IN  got.ret /\ got.value = ui.arg

\* The cursor was set to the far corner of a loaded image.
C10_Witness ==
  /\ ui.op = "SetCursorPosition"
  /\ mainLoaded
  /\ mainSize = <<MaxDim, MaxDim, 1>>
  /\ ui.arg = mainSize

\* C11: whenever a main image is loaded, the value the getter reports lies
\* inside the range it reports, 1 <= value <= image size in every component,
\* whatever SetCursorPosition calls came before.
C11_ValueInRange ==
  mainLoaded =>
    \A stale \in StaleValues :
      LET got == GetCursorPositionValueAndRange(stale, StaleRange, TRUE)
      IN  \A i \in 1..3 : /\ got.range.min[i] <= got.value[i]
                          /\ got.value[i] <= got.range.max[i]

\* What CheckState returns for the flags whose value is fixed or tied to the
\* main image.
C12_Flags ==
  /\ CheckState("UIF_GRAY_LOADED") = CheckState("UIF_BASEIMG_LOADED")
  /\ CheckState("UIF_GRAY_LOADED") = mainLoaded
  /\ CheckState("UIF_IRIS_ACTIVE")
  /\ ~CheckState("UIF_MESH_DIRTY")
  /\ \A state \in {"UIF_MESH_ACTION_PENDING", "UIF_ROI_VALID",
                   "UIF_UNDO_POSSIBLE", "UIF_REDO_POSSIBLE",
                   "UIF_UNSAVED_CHANGES", "UIF_MESH_SAVEABLE"} :
       ~CheckState(state)

\* C12: CheckState is a query: a call changes nothing but the record of the
\* call, and its result is a function of the flag and the state.  In every
\* state UIF_GRAY_LOADED and UIF_BASEIMG_LOADED both return whether the main
\* image is loaded, UIF_IRIS_ACTIVE returns true (also in snake mode),
\* UIF_MESH_DIRTY returns false and so do the six unimplemented flags.
C12_CheckState ==
  [][/\ C12_Flags
     /\ C12_Flags'
     /\ CheckStep =>
          /\ UNCHANGED <<driverVars, polygonDrawingContextMenu, linkedZoom,
                         polyVars, wrapVars>>
          /\ \E state \in UIState :
               ui'.arg = state /\ ui'.out = CheckState(state)']_vars

\* UIF_IRIS_ACTIVE was asked in snake mode, with an overlay and linked zoom.
C12_Witness ==
  /\ ui.op = "CheckState"
  /\ ui.arg = "UIF_IRIS_ACTIVE"
  /\ ui.out
  /\ CheckState("UIF_SNAKE_MODE")
  /\ CheckState("UIF_OVERLAY_LOADED")
  /\ CheckState("UIF_LINKED_ZOOM")

====
